---- MODULE Spec2Model ----
(***************************************************************************)
(* ExCGF.py: the CGF archive opener (CgfOpener.try_open), the extractor    *)
(* (extract_file) and the command line driver (main), over a small file    *)
(* system.                                                                  *)
(*                                                                          *)
(* A file's content is a Blob: explicit bytes followed by `tail` zero      *)
(* bytes that are not stored one by one, so that archives of 1 GiB and     *)
(* more are states of the model.  A 32-bit unsigned value is a record      *)
(* [hi, lo] standing for hi * 2^30 + lo (lo < 2^30): `x >> 30` is hi and   *)
(* `x & ~0xC0000000` drops the two low bits of hi.                         *)
(***************************************************************************)
EXTENDS Integers, Sequences, FiniteSets, TLC

VARIABLES fs, pc, arc_file, args, k, err, built

vars == <<fs, pc, arc_file, args, k, err, built>>

---------------------------------------------------------------------------
(* Program constants *)

Record14 == 20

Record20 == 32

Probe14 == 20

Probe20 == 32

SaneLimit == 100000

TwoPow30 == 1073741824

ForbiddenChars == {92, 47, 58, 42, 63, 34, 60, 62, 124}

---------------------------------------------------------------------------
(* Bounds of the model *)

MaxCount == 2

MaxPayload == 12

---------------------------------------------------------------------------
(* Byte strings and file contents *)

Min(a, b) == IF a < b THEN a ELSE b

Max(a, b) == IF a > b THEN a ELSE b

Zeros(n) == [j \in 1..n |-> 0]

Blob(bytes, tail) == [data |-> bytes, tail |-> tail]

BLen(b) == Len(b.data) + b.tail

ByteAt(b, p) == IF p < Len(b.data) THEN b.data[p + 1] ELSE 0

\* file.seek(pos); file.read(n) for a small n: short at end of file
ReadAt(b, pos, n) ==
    LET m == Max(0, Min(n, BLen(b) - pos))
    IN  [j \in 1..m |-> ByteAt(b, pos + j - 1)]

\* arc.seek(pos); arc.read(n) for any n >= 0, as a Blob
ReadBlob(b, pos, n) ==
    LET end  == Min(pos + n, BLen(b))
        dEnd == Min(end, Len(b.data))
    IN  IF end <= pos THEN Blob(<<>>, 0)
        ELSE Blob(IF pos < dEnd THEN SubSeq(b.data, pos + 1, dEnd) ELSE <<>>,
                  Max(0, end - Max(pos, Len(b.data))))

\* content[3:]
DropFirst3(c) ==
    IF Len(c.data) >= 3 THEN Blob(SubSeq(c.data, 4, Len(c.data)), c.tail)
    ELSE Blob(<<>>, Max(0, c.tail - (3 - Len(c.data))))

---------------------------------------------------------------------------
(* struct.unpack('<I', ...) and the masks *)

StructError == "struct.error"

UnicodeDecodeError == "UnicodeDecodeError"

ValueError == "ValueError"

\* err: the buffer is not 4 bytes long and struct.error is raised
unpack(b) ==
    IF Len(b) # 4 THEN [err |-> TRUE]
    ELSE [err |-> FALSE, hi |-> b[4] \div 64,
          lo |-> b[1] + 256 * b[2] + 65536 * b[3] + 16777216 * (b[4] % 64)]

\* file.tell() at end of file
tell(b) ==
    [err |-> FALSE, hi |-> BLen(b) \div TwoPow30, lo |-> BLen(b) % TwoPow30]

\* x & ~0xC0000000
MaskC(x) == x.lo + (x.hi \div 4) * 4 * TwoPow30

\* x >> 30
Shift30(x) == x.hi

---------------------------------------------------------------------------
(* bytes.decode('utf-8'), str.rstrip('\0'), str.lower().endswith('.iaf') *)

IsCont(c) == c \in 128..191

\* length of the well-formed UTF-8 sequence at the head of b, 0 if none
SeqLenAt(b) ==
    LET c == b[1] IN
    IF c < 128 THEN 1
    ELSE IF c \in 194..223 /\ Len(b) >= 2 /\ IsCont(b[2]) THEN 2
    ELSE IF c \in 224..239 /\ Len(b) >= 3 /\ IsCont(b[3])
            /\ b[2] \in (IF c = 224 THEN 160..191
                         ELSE IF c = 237 THEN 128..159 ELSE 128..191) THEN 3
    ELSE IF c \in 240..244 /\ Len(b) >= 4 /\ IsCont(b[3]) /\ IsCont(b[4])
            /\ b[2] \in (IF c = 240 THEN 144..191
                         ELSE IF c = 244 THEN 128..143 ELSE 128..191) THEN 4
    ELSE 0

CodePoint(b, n) ==
    IF n = 1 THEN b[1]
    ELSE IF n = 2 THEN (b[1] - 192) * 64 + (b[2] - 128)
    ELSE IF n = 3 THEN (b[1] - 224) * 4096 + (b[2] - 128) * 64 + (b[3] - 128)
    ELSE (b[1] - 240) * 262144 + (b[2] - 128) * 4096 + (b[3] - 128) * 64
         + (b[4] - 128)

\* err: the bytes are not UTF-8 and UnicodeDecodeError is raised
RECURSIVE decode(_)
decode(b) ==
    IF b = <<>> THEN [err |-> FALSE, s |-> <<>>]
    ELSE LET n == SeqLenAt(b) IN
         IF n = 0 THEN [err |-> TRUE]
         ELSE LET rest == decode(SubSeq(b, n + 1, Len(b))) IN
              IF rest.err THEN rest
              ELSE [err |-> FALSE, s |-> <<CodePoint(b, n)>> \o rest.s]

RECURSIVE rstrip0(_)
rstrip0(s) ==
    IF s # <<>> /\ s[Len(s)] = 0 THEN rstrip0(SubSeq(s, 1, Len(s) - 1)) ELSE s

\* str.lower() on the characters that can lower to one of ". i a f": only the
\* ASCII capitals do (checked over all code points), others stay in place
lower(s) == [j \in 1..Len(s) |-> IF s[j] \in 65..90 THEN s[j] + 32 ELSE s[j]]

DotIaf == <<46, 105, 97, 102>>

endswith_iaf(name) ==
    /\ Len(name) >= 4
    /\ SubSeq(lower(name), Len(name) - 3, Len(name)) = DotIaf

---------------------------------------------------------------------------
(* CgfOpener *)

is_sane_count(count) == count.hi = 0 /\ 0 < count.lo /\ count.lo < SaneLimit

is_valid_entry_name(name) ==
    /\ name # <<>>
    /\ \A j \in 1..Len(name) : name[j] \notin ForbiddenChars

Entry(name, offset, size) ==
    [cls |-> "Entry", name |-> name, type |-> "image", offset |-> offset,
     size |-> size]

CgfEntry(name, offset, size, flags) ==
    [cls |-> "CgfEntry", name |-> name, type |-> "image", offset |-> offset,
     size |-> size, flags |-> flags]

ArcFile(entries) == [kind |-> "ArcFile", entries |-> entries]

None == [kind |-> "None"]

Raised(e) == [kind |-> "raised", exc |-> e]

\* index_data[a:b] where index_data = file.read(index_size) from offset 4
IndexSlice(f, index_size, a, b) ==
    LET have == Max(0, Min(index_size, BLen(f) - 4))
        lo   == Min(a, have)
        hi   == Min(b, have)
    IN  [j \in 1..(hi - lo) |-> ByteAt(f, 4 + lo + j - 1)]

\* Classify with the suffix compared without lower(): ".IAF" is missed
ClassifyCaseSensitive(name, offset, size, flags) ==
    IF flags = 1 \/ (Len(name) >= 4 /\ SubSeq(name, Len(name) - 3, Len(name)) = DotIaf)
    THEN Entry(name, offset, size)
    ELSE CgfEntry(name, offset, size, flags)

\* the entry built at line 67-70
Classify(name, offset, size, flags) ==
    IF flags = 1 \/ endswith_iaf(name)
    THEN Entry(name, offset, size)
    ELSE CgfEntry(name, offset, size, flags)

\* the for loop of try_open, from record i with next_offset carried over
RECURSIVE ReadDir(_, _, _, _, _, _)
ReadDir(f, count, entry_size, i, next_offset, dir) ==
    IF i = count THEN ArcFile(dir)
    ELSE
    LET index_size == entry_size * count
        raw  == IndexSlice(f, index_size, i * entry_size,
                           i * entry_size + entry_size - 4)
        text == decode(raw)
    IN
    IF text.err THEN Raised(UnicodeDecodeError)
    ELSE
    LET name == rstrip0(text.s) IN
    IF ~is_valid_entry_name(name) THEN None
    ELSE
    LET flags  == Shift30(next_offset)
        offset == MaskC(next_offset)
        nxt    == IF i + 1 = count THEN tell(f)
                  ELSE unpack(IndexSlice(f, index_size,
                                         (i + 1) * entry_size + entry_size - 4,
                                         (i + 2) * entry_size))
    IN
    IF nxt.err THEN Raised(StructError)
    ELSE
    LET size == MaskC(nxt) - offset
    IN  ReadDir(f, count, entry_size, i + 1, nxt,
                Append(dir, Classify(name, offset, size, flags)))

\* DetectEntrySize with the 0x20 layout tested first
DetectEntrySize20First(count, offset1, offset2) ==
    IF 4 + count * Record20 = MaskC(offset2) THEN Record20
    ELSE IF 4 + count * Record14 = MaskC(offset1) THEN Record14
    ELSE 0

\* which record layout the probes select: 0 when neither fits
DetectEntrySize(count, offset1, offset2) ==
    IF 4 + count * Record14 = MaskC(offset1) THEN Record14
    ELSE IF 4 + count * Record20 = MaskC(offset2) THEN Record20
    ELSE 0

try_open(f) ==
    LET count == unpack(ReadAt(f, 0, 4)) IN
    IF count.err THEN Raised(StructError)
    ELSE IF ~is_sane_count(count) THEN None
    ELSE
    LET offset1 == unpack(ReadAt(f, Probe14, 4))
        offset2 == unpack(ReadAt(f, Probe20, 4))
    IN
    IF offset1.err \/ offset2.err THEN Raised(StructError)
    ELSE
    LET entry_size == DetectEntrySize(count.lo, offset1, offset2) IN
    IF entry_size = 0 THEN None
    ELSE ReadDir(f, count.lo, entry_size, 0,
                 IF entry_size = Record14 THEN offset1 ELSE offset2, <<>>)

---------------------------------------------------------------------------
(* The file system, extract_file and main *)

\* os.path.join(output_dir, output_name): names hold no separator
join(output_dir, output_name) == <<output_dir, output_name>>

WriteFile(files, path, content) ==
    [q \in DOMAIN files \cup {path} |-> IF q = path THEN content ELSE files[q]]

\* arc.read(entry.size): -1 reads to the end of the file
ReadSize(f, offset, size) ==
    ReadBlob(f, offset, IF size = -1 THEN Max(0, BLen(f) - offset) ELSE size)

\* the bytes handed to the two out.write calls
Transform(content) == Blob(Zeros(4) \o Zeros(3) \o DropFirst3(content).data,
                           DropFirst3(content).tail)

\* extract_file: the file system it leaves and the exception it raises, if
\* any.  open() refuses a path holding a NUL character; open(output_path,
\* 'wb') truncates before arc is read, and the first out.write stays buffered
\* until out is closed; arc.read refuses a size below -1.
extract_file(files, arc_filename, entry, output_dir, output_name) ==
    LET output_path == join(output_dir, output_name)
        truncated   == WriteFile(files, output_path, Blob(<<>>, 0))
    IN  IF \E j \in 1..Len(output_name) : output_name[j] = 0
        THEN [fs |-> files, exc |-> ValueError]
        ELSE IF entry.size < -1
        THEN [fs  |-> WriteFile(files, output_path, Blob(Zeros(4), 0)),
              exc |-> ValueError]
        ELSE LET content == ReadSize(truncated[arc_filename], entry.offset,
                                     entry.size)
             IN  [fs  |-> WriteFile(files, output_path, Transform(content)),
                  exc |-> ""]

\* line 112-115
Open ==
    /\ pc = "open"
    /\ arc_file' = try_open(fs[args.filename])
    /\ pc' = IF arc_file'.kind = "raised" THEN "crashed"
             ELSE IF arc_file'.kind = "None" THEN "failed"
             ELSE "extract"
    /\ err' = IF arc_file'.kind = "raised" THEN arc_file'.exc ELSE ""
    /\ UNCHANGED <<fs, args, k, built>>

\* index of the first entry called input_name, 0 if there is none
FindEntry(entries, input_name) ==
    LET hits == {j \in 1..Len(entries) : entries[j].name = input_name}
    IN  IF hits = {} THEN 0 ELSE CHOOSE j \in hits : \A h \in hits : j <= h

\* line 122-129
ExtractNamed ==
    /\ pc = "extract"
    /\ LET j == IF args.extract = <<>> THEN 0
                ELSE FindEntry(arc_file.entries, args.extract[2])
       IN  IF j = 0
           THEN /\ pc' = "all"
                /\ UNCHANGED <<fs, err>>
           ELSE LET r == extract_file(fs, args.filename, arc_file.entries[j],
                                      args.output, args.extract[1])
                IN  /\ fs' = r.fs
                    /\ err' = r.exc
                    /\ pc' = IF r.exc = "" THEN "all" ELSE "crashed"
    /\ UNCHANGED <<arc_file, args, k, built>>

\* line 131-133, one iteration
ExtractAll ==
    /\ pc = "all"
    /\ args.all
    /\ k < Len(arc_file.entries)
    /\ LET entry == arc_file.entries[k + 1]
           r     == extract_file(fs, args.filename, entry, args.output,
                                 entry.name)
       IN  /\ fs' = r.fs
           /\ err' = r.exc
           /\ pc' = IF r.exc = "" THEN "all" ELSE "crashed"
    /\ k' = k + 1
    /\ UNCHANGED <<arc_file, args, built>>

\* main returns
Finish ==
    /\ pc = "all"
    /\ ~args.all \/ k = Len(arc_file.entries)
    /\ pc' = "done"
    /\ UNCHANGED <<fs, arc_file, args, k, err, built>>

---------------------------------------------------------------------------
(* The archives and command lines the program is started on *)

\* struct.pack('<I', hi * 2^30 + lo)
pack(hi, lo) ==
    <<lo % 256, (lo \div 256) % 256, (lo \div 65536) % 256,
      (lo \div 16777216) + 64 * hi>>

\* UTF-8 bytes of: A.IMG  b.IaF  e-acute.IAF  iaf  (empty)  (byte FF)  a/b
NameList ==
    << <<65, 46, 73, 77, 71>>, <<98, 46, 73, 97, 70>>,
       <<195, 169, 46, 73, 65, 70>>, <<105, 97, 102>>, <<>>, <<255>>,
       <<97, 47, 98>> >>

SizeList == <<0, 2, 10, MaxPayload>>

Mutations ==
    {"none", "count0", "countBig", "badprobe", "zerofirst", "decreasing",
     "patch14", "patch20", "giant", "cut0", "cut3", "cut8", "cut35", "cutIndex"}

Rot(list, start, i) == list[((start + i - 2) % Len(list)) + 1]

\* "0123456789" repeated
Payload(n) == [j \in 1..n |-> 48 + ((j - 1) % 10)]

RECURSIVE Concat(_)
Concat(ss) == IF ss = <<>> THEN <<>> ELSE Head(ss) \o Concat(Tail(ss))

RECURSIVE Offsets(_, _, _)
Offsets(first, sizes, i) ==
    IF i > Len(sizes) THEN <<>>
    ELSE <<first>> \o Offsets(first + sizes[i], sizes, i + 1)

Patch(bytes, pos, four) ==
    IF pos + 4 > Len(bytes) THEN bytes
    ELSE [j \in 1..Len(bytes) |->
            IF j - 1 \in pos..(pos + 3) THEN four[j - pos] ELSE bytes[j]]

\* the archive of n records of rs bytes, then the payloads, then the damage
BuildArchive(p) ==
    LET n     == p.n
        rs    == p.rs
        cnt   == IF p.mut = "count0" THEN 0
                 ELSE IF p.mut = "countBig" THEN SaneLimit ELSE n
        first == 4 + cnt * rs + (IF p.mut = "badprobe" THEN 1 ELSE 0)
        offs  == Offsets(first, p.sizes, 1)
        field == [i \in 1..n |->
                    IF p.mut = "zerofirst" /\ i = 1 THEN pack(0, 0)
                    ELSE IF p.mut = "decreasing" /\ i > 1 THEN pack(p.flags[i], 10)
                    ELSE pack(p.flags[i], offs[i])]
        recs  == [i \in 1..n |->
                    p.names[i] \o Zeros(rs - 4 - Len(p.names[i])) \o field[i]]
        whole == pack(0, cnt) \o Concat(recs)
                 \o Concat([i \in 1..n |-> Payload(p.sizes[i])])
        cutTo == IF p.mut = "cut0" THEN 0
                 ELSE IF p.mut = "cut3" THEN 3
                 ELSE IF p.mut = "cut8" THEN 8
                 ELSE IF p.mut = "cut35" THEN 35
                 ELSE IF p.mut = "cutIndex" THEN 4 + n * rs - 1
                 ELSE Len(whole)
        bytes == IF p.mut = "patch14" THEN Patch(whole, Probe14, pack(0, 4 + n * Record14))
                 ELSE IF p.mut = "patch20" THEN Patch(whole, Probe20, pack(0, 4 + n * Record20))
                 ELSE SubSeq(whole, 1, Min(cutTo, Len(whole)))
    IN  Blob(bytes, IF p.mut = "giant" THEN TwoPow30 ELSE 0)

Params(rs, n, n0, f0, fstep, s0, mut) ==
    [rs |-> rs, n |-> n, mut |-> mut,
     names |-> [i \in 1..n |-> Rot(NameList, n0, i)],
     flags |-> [i \in 1..n |-> (f0 + (i - 1) * fstep) % 4],
     sizes |-> [i \in 1..n |-> Rot(SizeList, s0, i)]]

\* every name, flag and size, undamaged; and every damage on good names
Inputs ==
    {Params(rs, n, n0, f0, fstep, s0, "none") :
        rs \in {Record14, Record20}, n \in 1..MaxCount, n0 \in 1..Len(NameList),
        f0 \in 0..3, fstep \in 0..3, s0 \in 1..Len(SizeList)}
    \cup
    {Params(rs, n, 1, f0, 1, s0, mut) :
        rs \in {Record14, Record20}, n \in 1..MaxCount, f0 \in {0, 2},
        s0 \in 1..Len(SizeList), mut \in Mutations}

\* the archive is ./A.IMG
ArcName == <<65, 46, 73, 77, 71>>

ArcPath == <<".", ArcName>>

\* -e OUTPUT INPUT: none, A.IMG from b.IaF, o from a missing zz
ExtractArgs == {<<>>, <<ArcName, <<98, 46, 73, 97, 70>>>>, <<<<111>>, <<122, 122>>>>}

Args ==
    [filename : {ArcPath}, extract : ExtractArgs, all : BOOLEAN,
     output : {".", "out"}]

Init ==
    /\ built \in Inputs
    /\ fs = [q \in {ArcPath} |-> BuildArchive(built)]
    /\ args \in Args
    /\ pc = "open"
    /\ arc_file = [kind |-> "unset"]
    /\ k = 0
    /\ err = ""

Next == Open \/ ExtractNamed \/ ExtractAll \/ Finish

Spec == Init /\ [][Next]_vars

---------------------------------------------------------------------------
(* What the claims speak of, read off the archive bytes themselves *)

\* the archive as it was when main started
Original == BuildArchive(built)

HasU32(f, pos) == pos + 4 <= BLen(f)

\* the low 30 bits and the top 2 bits of the little-endian u32 at pos
Low30At(f, pos) ==
    ByteAt(f, pos) + 256 * ByteAt(f, pos + 1) + 65536 * ByteAt(f, pos + 2)
    + 16777216 * (ByteAt(f, pos + 3) % 64)

Top2At(f, pos) == ByteAt(f, pos + 3) \div 64

CountOf(f) == Low30At(f, 0)

CountIsSane(f) == HasU32(f, 0) /\ Top2At(f, 0) = 0 /\ CountOf(f) \in 1..99999

Eq14(f) == HasU32(f, 20) /\ 4 + CountOf(f) * 20 = Low30At(f, 20)

Eq20(f) == HasU32(f, 32) /\ 4 + CountOf(f) * 32 = Low30At(f, 32)

LayoutOf(f) == IF Eq14(f) THEN 20 ELSE 32

\* position of the packed field of record i (from 1) under record size rs
FieldPos(i, rs) == 4 + (i - 1) * rs + rs - 4

\* the name field of record i, as far as the file holds it
NameField(f, i, rs) == ReadAt(f, 4 + (i - 1) * rs, rs - 4)

NameIsBad(field) ==
    \/ \A j \in 1..Len(field) : field[j] = 0
    \/ \E j \in 1..Len(field) : field[j] \in {92, 47, 58, 42, 63, 34, 60, 62, 124}

IafSuffix(name) ==
    /\ Len(name) >= 4
    /\ name[Len(name) - 3] = 46
    /\ name[Len(name) - 2] \in {105, 73}
    /\ name[Len(name) - 1] \in {97, 65}
    /\ name[Len(name)] \in {102, 70}

RECURSIVE SumSizes(_)
SumSizes(entries) ==
    IF entries = <<>> THEN 0 ELSE Head(entries).size + SumSizes(Tail(entries))

Opened == pc # "open"

Returned == arc_file.kind = "ArcFile"

\* the text of the names of NameList that are valid entry names
GoodText ==
    << <<65, 46, 73, 77, 71>>, <<98, 46, 73, 97, 70>>,
       <<233, 46, 73, 65, 70>>, <<105, 97, 102>> >>

TextOf(bytes) == GoodText[CHOOSE j \in 1..4 : NameList[j] = bytes]

WellFormed(p) ==
    /\ p.mut = "none"
    /\ \A i \in 1..p.n : \E j \in 1..4 : NameList[j] = p.names[i]

\* entry i of the directory a well-formed archive was built to hold
BuiltEntry(p, i) ==
    LET offs   == Offsets(4 + p.n * p.rs, p.sizes, 1)
        name   == TextOf(p.names[i])
        offset == offs[i]
        size   == (IF i = p.n THEN BLen(BuildArchive(p)) ELSE offs[i + 1]) - offs[i]
    IN  IF p.flags[i] = 1 \/ IafSuffix(name)
        THEN [cls |-> "Entry", name |-> name, type |-> "image",
              offset |-> offset, size |-> size]
        ELSE [cls |-> "CgfEntry", name |-> name, type |-> "image",
              offset |-> offset, size |-> size, flags |-> p.flags[i]]

---------------------------------------------------------------------------
(* Claims *)

\* C1: try_open on a well-formed archive (record size 0x14 or 0x20, valid
\* names, first offset 4 + count * record_size, non-decreasing offsets) returns
\* the directory of exactly the entries it was built from: names, offsets,
\* sizes up to the next offset or the file length, kinds from the flags; also
\* for archives shorter than 0x24 bytes.
C1_RoundTrip ==
    (Opened /\ WellFormed(built)) =>
        arc_file = [kind |-> "ArcFile",
                    entries |-> [i \in 1..built.n |-> BuiltEntry(built, i)]]

\* C2: try_open returns None whenever the count is 0, the count is 100000 or
\* more, neither layout equation holds, or the name of some record in
\* 0..count-1 is empty after null-stripping or holds a forbidden character.
C2_Rejects ==
    LET f == Original IN
    (/\ Opened
     /\ HasU32(f, 0)
     /\ \/ ~CountIsSane(f)
        \/ ~Eq14(f) /\ ~Eq20(f)
        \/ \E i \in 1..CountOf(f) : NameIsBad(NameField(f, i, LayoutOf(f))))
    => arc_file.kind = "None"

\* C3: whatever the length of the file, try_open ends either with a complete
\* directory of exactly count entries or with None: no other outcome, no
\* shorter directory.
C3_TwoOutcomes ==
    Opened =>
        \/ arc_file.kind = "None"
        \/ /\ Returned
           /\ HasU32(Original, 0)
           /\ Len(arc_file.entries) = CountOf(Original)

\* C4: in a returned directory the sizes of all entries, plus the index block
\* count * record_size, plus 4, add up to the length of the archive file.
C4_SizesSum ==
    Returned =>
        SumSizes(arc_file.entries)
        + Len(arc_file.entries) * LayoutOf(Original) + 4 = BLen(Original)

\* C5: in a returned directory every entry has size >= 0, every entry starts
\* where its predecessor ends, and the last entry ends within the file.
C5_OrderedRanges ==
    Returned =>
        LET es == arc_file.entries IN
        /\ \A i \in 1..Len(es) : es[i].size >= 0
        /\ \A i \in 2..Len(es) :
              /\ es[i].offset >= es[i - 1].offset
              /\ es[i].offset = es[i - 1].offset + es[i - 1].size
        /\ es[Len(es)].offset + es[Len(es)].size <= BLen(Original)

\* C6 for one extract_file call of a step: the entry lies inside the archive
\* and holds N >= 3 bytes, so the file written is 7 zero bytes and then the
\* entry's bytes from the fourth on, N + 4 bytes in all.
C6_Call(entry, output_name) ==
    LET f    == fs[ArcPath]
        path == <<args.output, output_name>>
        N    == entry.size
    IN  (N >= 3 /\ entry.offset + N <= BLen(f)) =>
            /\ path \in DOMAIN fs'
            /\ BLen(fs'[path]) = N + 4
            /\ \A j \in 0..(N + 3) :
                  ByteAt(fs'[path], j) =
                      IF j < 7 THEN 0 ELSE ByteAt(f, entry.offset + j - 4)

\* C6: every extract_file call, of main's -e branch or of its -a loop, on an
\* entry inside the archive with content C of N >= 3 bytes writes 4 zero
\* bytes, 3 zero bytes and C[3:], whatever the entry's kind and flags.
C6_ExtractTransform ==
    [][/\ (pc = "all" /\ k' = k + 1) =>
              C6_Call(arc_file.entries[k + 1], arc_file.entries[k + 1].name)
       /\ (pc = "extract" /\ args.extract # <<>>) =>
              \A j \in 1..Len(arc_file.entries) :
                  j = FindEntry(arc_file.entries, args.extract[2]) =>
                      C6_Call(arc_file.entries[j], args.extract[1])]_vars

\* the archive of the end-to-end example: one 0x14 record named A.IMG with
\* flags 0, then "0123456789"; its packed field holds the offset 0x18, or 0
\* as the example writes it
IsExample(p) ==
    /\ p.rs = 20 /\ p.n = 1 /\ p.names = << <<65, 46, 73, 77, 71>> >>
    /\ p.flags = <<0>> /\ p.sizes = <<10>> /\ p.mut \in {"none", "zerofirst"}

\* C7: on the example archive try_open yields exactly one Image entry A.IMG
\* at offset 0x18 of size 10, and extracting it writes 7 zero bytes and then
\* "3456789".
C7_EndToEnd ==
    IsExample(built) =>
        /\ Opened =>
              arc_file = [kind |-> "ArcFile", entries |->
                  << [cls |-> "CgfEntry", name |-> <<65, 46, 73, 77, 71>>,
                      type |-> "image", offset |-> 24, size |-> 10,
                      flags |-> 0] >>]
        /\ (pc = "done" /\ args.all /\ args.output = "out") =>
              /\ <<"out", <<65, 46, 73, 77, 71>>>> \in DOMAIN fs
              /\ fs[<<"out", <<65, 46, 73, 77, 71>>>>] =
                    [data |-> <<0, 0, 0, 0, 0, 0, 0, 51, 52, 53, 54, 55, 56, 57>>,
                     tail |-> 0]

\* C8: entry i of a returned directory is a plain Entry without flags exactly
\* when the top two bits of record i's own packed field are 1 or its name ends
\* with .iaf in any letter case; otherwise it is a CgfEntry carrying those two
\* bits as its flags.
C8_Classification ==
    Returned =>
        \A i \in 1..Len(arc_file.entries) :
            LET e      == arc_file.entries[i]
                flags_i == Top2At(Original, FieldPos(i, LayoutOf(Original)))
            IN  IF flags_i = 1 \/ IafSuffix(e.name)
                THEN e.cls = "Entry" /\ "flags" \notin DOMAIN e
                ELSE e.cls = "CgfEntry" /\ e.flags = flags_i

\* a directory with a .iaf name in mixed case whose record carries flags 2
\* or 3, next to a record with other flags
C8_Witness ==
    /\ Returned
    /\ \E i \in 1..Len(arc_file.entries) :
          /\ IafSuffix(arc_file.entries[i].name)
          /\ arc_file.entries[i].name[Len(arc_file.entries[i].name)] = 70
          /\ Top2At(Original, FieldPos(i, LayoutOf(Original))) \in {2, 3}
          /\ arc_file.entries[i].cls = "Entry"
    /\ \E i \in 1..Len(arc_file.entries) : arc_file.entries[i].cls = "CgfEntry"

\* C9: no step writes to the archive file: its bytes and its length stay as
\* they are through try_open and every extract_file call.
C9_ArchiveReadOnly == [][fs'[ArcPath] = fs[ArcPath]]_vars

\* C10: a returned directory is decoded with record size 0x14 whenever the
\* 0x14 equation holds, also when the 0x20 equation holds too: every entry's
\* offset, and the first entry's flags, come from the packed fields of the
\* 0x14 layout; record size 0x20 is used only when the 0x14 equation fails and
\* the 0x20 equation holds.
C10_TieBreak ==
    Returned =>
        LET f  == Original
            rs == IF Eq14(f) THEN 20 ELSE 32
            e1 == arc_file.entries[1]
        IN  /\ Eq14(f) \/ Eq20(f)
            /\ \A i \in 1..Len(arc_file.entries) :
                  arc_file.entries[i].offset = Low30At(f, FieldPos(i, rs))
            /\ e1.offset = 4 + Len(arc_file.entries) * rs
            /\ IF e1.cls = "CgfEntry" THEN e1.flags = Top2At(f, FieldPos(1, rs))
               ELSE Top2At(f, FieldPos(1, rs)) = 1 \/ IafSuffix(e1.name)

\* a directory returned for a file on which both equations hold
C10_Witness ==
    /\ Returned
    /\ Eq14(Original) /\ Eq20(Original)
    /\ arc_file.entries[1].offset = 4 + CountOf(Original) * 20

====
